---- MODULE Spec2Model ----
(***************************************************************************)
(* Model of utils/rate_limiter.py: the RateLimiter retry executor, its     *)
(* backoff computation, its error classification and the module-level      *)
(* default instance.                                                       *)
(*                                                                         *)
(* Time.  time.time() is a float number of seconds.  The model clock `now` *)
(* counts ticks of 1/TicksPerMs millisecond, fine enough that the +-25%    *)
(* jitter of a delay given in whole milliseconds is a whole number of      *)
(* ticks, so no delay is rounded.  Policies are given in milliseconds.     *)
(***************************************************************************)
EXTENDS Integers, Sequences, FiniteSets, TLC

VARIABLES
    now,         \* the wall clock read by time.time(), in ticks
    heap,        \* every RateLimiter object constructed so far
    default_rl,  \* _default_rate_limiter: index into heap
    thr,         \* per thread: position in call_with_retry and its locals
    calc,        \* the latest _calculate_delay evaluation (inputs and result)
    lags,        \* number of times the environment let extra time pass
    nops,        \* number of things the calling code has done so far
    nraised      \* number of exception objects raised by operations so far

vars == <<now, heap, default_rl, thr, calc, lags, nops, nraised>>

----------------------------------------------------------------------------
(* Bounds of the model *)

\* jitter resolution: random.random() * 2 - 1 is drawn from
\* { j / JitterDen : j \in -JitterDen .. JitterDen - 1 }, a grid on [-1, 1)
JitterDen == 2
\* things the calling code does per run: it constructs or replaces an
\* executor, or it starts a call_with_retry
MaxOps == 2
\* times the environment lets LagTicks pass (operation latency, idle time, a
\* sleep that overshoots)
MaxLags == 1
\* exceptions the operation raises per run; after that it only succeeds
MaxRaised == 4

TicksPerMs == 4 * JitterDen
Ms(x) == x * TicksPerMs

\* the clock when the module is imported.  time.time() counts from 1970, so
\* it is far more than min_interval after the initial last_request_time = 0.
StartTime == Ms(1000)
LagTicks == Ms(150)

----------------------------------------------------------------------------
(* Text.  An error message is a sequence of one-character strings.        *)

UpperChars == <<"A","B","C","D","E","F","G","H","I","J","K","L","M",
                "N","O","P","Q","R","S","T","U","V","W","X","Y","Z">>
LowerChars == <<"a","b","c","d","e","f","g","h","i","j","k","l","m",
                "n","o","p","q","r","s","t","u","v","w","x","y","z">>

\* str.lower(), character by character
lower(s) ==
    [i \in 1..Len(s) |->
        IF \E k \in 1..26 : UpperChars[k] = s[i]
        THEN LowerChars[CHOOSE k \in 1..26 : UpperChars[k] = s[i]]
        ELSE s[i]]

\* `kw in s` for strings
Contains(s, kw) ==
    \E i \in 0..(Len(s) - Len(kw)) : SubSeq(s, i + 1, i + Len(kw)) = kw

Digits == <<"0","1","2","3","4","5","6","7","8","9">>
IsDigit(c) == \E d \in 1..10 : Digits[d] = c
DigitVal(c) == (CHOOSE d \in 1..10 : Digits[d] = c) - 1
IsSpace(c) == c \in {" ", "\t"}
IsQuote(c) == c \in {"\"", "'"}

\* \s*: the length of the maximal run of whitespace s[p], s[p+1], ...
SpaceRun(s, p) ==
    CHOOSE n \in 0..(Len(s) - p + 1) :
        /\ \A k \in 0..(n - 1) : IsSpace(s[p + k])
        /\ (p + n > Len(s) \/ ~IsSpace(s[p + n]))

\* [^"\']+: the length of the maximal run of non-quotes s[p], s[p+1], ...
ValueRun(s, p) ==
    CHOOSE n \in 0..(Len(s) - p + 1) :
        /\ \A k \in 0..(n - 1) : ~IsQuote(s[p + k])
        /\ (p + n > Len(s) \/ IsQuote(s[p + n]))

HeaderName == <<"X","-","R","a","t","e","L","i","m","i","t","-","R","e","s","e","t">>

\* where the value group starts if the pattern
\*     X-RateLimit-Reset["\']:\s*["\']([^"\']+)["\']
\* matches with its first character at s[i]; 0 if it does not match there.
\* \s* and [^"\']+ are greedy and neither can give way to what follows them
\* (a quote), so the match at i is unique.
GroupStartAt(s, i) ==
    LET h  == Len(HeaderName)
        ws == IF i + h + 2 <= Len(s) THEN SpaceRun(s, i + h + 2) ELSE 0
        q2 == i + h + 2 + ws
    IN  IF /\ i + h + 1 <= Len(s)
           /\ SubSeq(s, i, i + h - 1) = HeaderName
           /\ IsQuote(s[i + h])
           /\ s[i + h + 1] = ":"
           /\ q2 <= Len(s)
           /\ IsQuote(s[q2])
           /\ q2 + 1 <= Len(s)
           /\ ValueRun(s, q2 + 1) >= 1
           /\ q2 + 1 + ValueRun(s, q2 + 1) <= Len(s)
        THEN q2 + 1
        ELSE 0

\* re.search(pattern, error_message): the leftmost match.  matched = FALSE is
\* Python's None; group is reset_match.group(1).
re_search(s) ==
    LET starts == {i \in 1..Len(s) : GroupStartAt(s, i) > 0}
    IN  IF starts = {}
        THEN [matched |-> FALSE, group |-> <<>>]
        ELSE LET i == CHOOSE x \in starts : \A y \in starts : x <= y
                 g == GroupStartAt(s, i)
             IN  [matched |-> TRUE,
                  group |-> SubSeq(s, g, g + ValueRun(s, g) - 1)]

RECURSIVE DigitsValue(_)
DigitsValue(ds) ==
    IF ds = <<>> THEN 0
    ELSE 10 * DigitsValue(SubSeq(ds, 1, Len(ds) - 1)) + DigitVal(ds[Len(ds)])

\* str.strip(), as int() applies it to its argument
StripLeft(s) == SubSeq(s, (IF s = <<>> THEN 0 ELSE SpaceRun(s, 1)) + 1, Len(s))
TrailingSpaces(s) ==
    CHOOSE n \in 0..Len(s) :
        /\ \A k \in 0..(n - 1) : IsSpace(s[Len(s) - k])
        /\ (n = Len(s) \/ ~IsSpace(s[Len(s) - n]))
StripRight(s) == SubSeq(s, 1, Len(s) - TrailingSpaces(s))
strip(s) == StripRight(StripLeft(s))

HasSign(core) == core # <<>> /\ core[1] \in {"+", "-"}
Unsigned(core) == IF HasSign(core) THEN Tail(core) ELSE core
\* decimal digits, single underscores allowed between digits
WellFormed(body) ==
    /\ body # <<>>
    /\ \A k \in 1..Len(body) : IsDigit(body[k]) \/ body[k] = "_"
    /\ IsDigit(body[1]) /\ IsDigit(body[Len(body)])
    /\ \A k \in 1..(Len(body) - 1) : ~(body[k] = "_" /\ body[k + 1] = "_")
Magnitude(body) == DigitsValue(SelectSeq(body, IsDigit))
IntOfCore(core) ==
    IF WellFormed(Unsigned(core))
    THEN [ok |-> TRUE,
          value |-> IF core[1] = "-" THEN 0 - Magnitude(Unsigned(core))
                    ELSE Magnitude(Unsigned(core))]
    ELSE [ok |-> FALSE, value |-> 0]

\* int(text): surrounding whitespace is stripped, one sign is allowed, then
\* the digits.  ok = FALSE is the ValueError.
int(text) == IntOfCore(strip(text))

\* str(n) for n >= 0
RECURSIVE DigitsOf(_)
DigitsOf(n) ==
    IF n < 10 THEN <<Digits[n + 1]>>
    ELSE Append(DigitsOf(n \div 10), Digits[(n % 10) + 1])

----------------------------------------------------------------------------
(* class RateLimiter *)

MinIntervalMs == 200
MinDelayMs == 100
DefaultMaxRetries == 3
DefaultBaseDelayMs == 1000
DefaultMaxDelayMs == 60000

min_interval == Ms(MinIntervalMs)

Min(a, b) == IF a <= b THEN a ELSE b
Max(a, b) == IF a >= b THEN a ELSE b

RECURSIVE Pow2(_)
Pow2(n) == IF n <= 0 THEN 1 ELSE 2 * Pow2(n - 1)

\* RateLimiter.__init__: the constructor stores its arguments as given.
\* via records how the object was made and invoked counts the invocations of
\* operations made through the object (neither is a field of the class).
RateLimiter(max_retries, base_delay, max_delay, via) ==
    [max_retries |-> max_retries,
     base_delay |-> base_delay,
     max_delay |-> max_delay,
     last_request_time |-> 0,
     request_count |-> 0,
     via |-> via,
     invoked |-> 0]

Keywords ==
    { <<"r","a","t","e"," ","l","i","m","i","t">>,
      <<"4","2","9">>,
      <<"t","o","o"," ","m","a","n","y"," ","r","e","q","u","e","s","t","s">>,
      <<"q","u","o","t","a"," ","e","x","c","e","e","d","e","d">> }

\* a slip: every error taken for a rate-limit error
IsRateLimitErrorAlways(self, error_str) == TRUE

\* a slip: the text searched as it is, not lower-cased
IsRateLimitErrorCaseSensitive(self, error_str) ==
    \E keyword \in Keywords : Contains(error_str, keyword)

\* a slip: an error counted as a rate-limit error only while the executor
\* has made no more attempts than its budget
IsRateLimitErrorWithinBudget(self, error_str) ==
    /\ self.request_count <= self.max_retries + 1
    /\ \E keyword \in Keywords : Contains(lower(error_str), keyword)

\* RateLimiter._is_rate_limit_error(self, error), on error_str = str(error)
_is_rate_limit_error(self, error_str) ==
    \E keyword \in Keywords : Contains(lower(error_str), keyword)

\* Optional[float]
None == [is_none |-> TRUE, value |-> 0]
Some(x) == [is_none |-> FALSE, value |-> x]

\* a slip: the millisecond difference returned as if it were seconds
RetryAfterNoDivide(reset_match, parsed, current_time) ==
    IF reset_match.matched /\ parsed.ok /\ parsed.value > current_time
    THEN Some(Ms((parsed.value - current_time) * 1000))
    ELSE None

\* a slip: the test reset_timestamp > current_time left out
RetryAfterNoFutureCheck(reset_match, parsed, current_time) ==
    IF reset_match.matched /\ parsed.ok
    THEN Some(Ms(parsed.value - current_time))
    ELSE None

\* lines 49-58, given the match, int(reset_match.group(1)) and
\* current_time = int(time.time() * 1000).  The result is in ticks:
\* (reset_timestamp - current_time) / 1000.0 seconds.
retry_after_of(reset_match, parsed, current_time) ==
    IF reset_match.matched /\ parsed.ok /\ parsed.value > current_time
    THEN Some(Ms(parsed.value - current_time))
    ELSE None

MatchedAt(reset_match, t) ==
    retry_after_of(reset_match, int(reset_match.group), t \div TicksPerMs)

\* RateLimiter._extract_retry_after at clock reading t (ticks)
_extract_retry_after(error_message, t) == MatchedAt(re_search(error_message), t)

\* a slip: the floor applied before the cap
ClampCapLast(self, jittered) ==
    Min(Max(jittered, Ms(MinDelayMs)), Ms(self.max_delay))

\* a slip: the cap at max_delay left out
ClampFloorOnly(self, jittered) == Max(jittered, Ms(MinDelayMs))

\* lines 38-41
clamp(self, jittered) ==
    Max(Min(jittered, Ms(self.max_delay)), Ms(MinDelayMs))

\* a slip: a jitter of +-50%
AddJitterHalf(base, j) == base + (base * j * 2) \div TicksPerMs

\* lines 34-36: delay * 0.25 * (j / JitterDen), added to the delay.  base is a
\* whole number of milliseconds, so the division is exact
add_jitter(base, j) == base + (base * j) \div TicksPerMs

\* a slip: the exponent taken from the executor's lifetime count of attempts
BaseOfLifetimeExponent(self, attempt, retry_after) ==
    IF ~retry_after.is_none /\ retry_after.value # 0
    THEN retry_after.value
    ELSE Ms(self.base_delay) * Pow2(self.request_count - 1)

\* lines 28-32
base_of(self, attempt, retry_after) ==
    IF ~retry_after.is_none /\ retry_after.value # 0
    THEN retry_after.value
    ELSE Ms(self.base_delay) * Pow2(attempt)

DelayRecord(self, retry_after, base, jittered) ==
    [retry_after |-> retry_after, base |-> base, jittered |-> jittered,
     delay |-> clamp(self, jittered)]
DelayFromBase(self, retry_after, base, j) ==
    DelayRecord(self, retry_after, base, add_jitter(base, j))
DelayFromHint(self, attempt, retry_after, j) ==
    DelayFromBase(self, retry_after, base_of(self, attempt, retry_after), j)

\* RateLimiter._calculate_delay at clock reading t, with the jitter draw
\* random.random() * 2 - 1 = j / JitterDen.  base is the delay before jitter,
\* jittered the delay before clamping, delay the value returned (all ticks).
_calculate_delay(self, attempt, error_message, t, j) ==
    DelayFromHint(self, attempt, _extract_retry_after(error_message, t), j)

JitterDraws == (0 - JitterDen)..(JitterDen - 1)
\* the two ends of the jitter range
ExtremeDraws == {0 - JitterDen, JitterDen - 1}

----------------------------------------------------------------------------
(* The wrapped operation and what it can raise *)

Txt429 == <<"4","2","9"," ">>
\* 'X-RateLimit-Reset': '<T>', as a dict of response headers prints
HintQuoted(T) ==
    Txt429 \o HeaderName \o <<"'", ":", " ", "'">> \o DigitsOf(T) \o <<"'">>
\* X-RateLimit-Reset: "<T>", the header name not followed by a quote
HintBare(T) ==
    Txt429 \o HeaderName \o <<":", " ", "\"">> \o DigitsOf(T) \o <<"\"">>
\* a quoted hint whose value is no integer
HintNotInt ==
    Txt429 \o HeaderName \o <<"\"", ":", "\"", "s", "o", "o", "n", "\"">>
MsgTooMany ==
    <<"4","2","9"," ","T","o","o"," ","M","a","n","y"," ",
      "R","e","q","u","e","s","t","s">>
MsgInvalidKey ==
    <<"I","n","v","a","l","i","d"," ","A","P","I"," ","k","e","y">>

\* reset timestamps (ms) servers put in a hint: shortly after StartTime, far
\* after it, and long past
NearResetMs == StartTime \div TicksPerMs + 300
FarResetMs == StartTime \div TicksPerMs + 89000
PastResetMs == StartTime \div TicksPerMs - 995

\* messages of the errors the operation raises in Spec
Messages == {MsgTooMany, MsgInvalidKey, HintQuoted(NearResetMs)}
\* values the operation returns
Values == {"r1", "r2"}
\* arguments a caller passes
Args == {"a1"}

\* exception objects; id tells two objects with the same message apart
NoException == [id |-> 0, type |-> "None", msg |-> <<>>]
\* what `raise None` raises
TypeErrorNotException == [id |-> 0, type |-> "TypeError", msg |-> <<>>]
Exc(id, msg) == [id |-> id, type |-> "Exception", msg |-> msg]

NoOutcome == [kind |-> "none", value |-> "", exc |-> NoException]
Returned(v) == [kind |-> "return", value |-> v, exc |-> NoException]
Raised(e) == [kind |-> "raise", value |-> "", exc |-> e]

\* what happened during the current call, in order
EvInvoke(n, a, out) == [ev |-> "invoke", attempt |-> n, args |-> a, dur |-> 0, out |-> out]
EvPace(n, d) == [ev |-> "pace", attempt |-> n, args |-> "", dur |-> d, out |-> NoOutcome]
EvBackoff(n, d) == [ev |-> "backoff", attempt |-> n, args |-> "", dur |-> d, out |-> NoOutcome]

\* logger records
LogRec(level, what, n, of, d) ==
    [level |-> level, what |-> what, n |-> n, of |-> of, delay |-> d]

NoCalc == [done |-> FALSE, self |-> RateLimiter(0, 0, 0, "none"), attempt |-> 0, error_message |-> <<>>,
           t |-> 0, j |-> 0,
           result |-> [retry_after |-> None, base |-> 0, jittered |-> 0, delay |-> 0]]

IdleThread ==
    [pc |-> "idle", self |-> 0, args |-> "", attempt |-> 0, limit |-> 0,
     last_exception |-> NoException, e |-> NoException, current_time |-> 0,
     wake |-> 0, loaded |-> 0, delay |-> 0, outcome |-> NoOutcome,
     hist |-> <<>>, log |-> <<>>]

Threads == DOMAIN thr

----------------------------------------------------------------------------
(* Constructing executors *)

\* (max_retries, base_delay ms, max_delay ms) as callers pass them; the
\* constructor checks nothing, so any numbers are possible arguments
PolicyArgs ==
    { <<1, 100, 400>>, <<2, 50, 60>>, <<0 - 1, 100, 400>> }

\* config dicts handed to create_rate_limited_llm: get_agent_config()'s, one
\* without the two keys, and one a caller filled in by hand
Configs ==
    { [max_retries |-> 3, retry_delay |-> 1000],
      [other |-> 0],
      [max_retries |-> 0 - 1, retry_delay |-> 120000] }

\* arguments callers give set_global_rate_limits: none (its defaults), or a
\* policy of their own
GlobalArgs ==
    { <<DefaultMaxRetries, DefaultBaseDelayMs, DefaultMaxDelayMs>>, <<0, 500, 200>> }

\* dict.get(key, default)
get(config, key, default) ==
    IF key \in DOMAIN config THEN config[key] ELSE default

Init ==
    /\ now = StartTime
    \* line 155: _default_rate_limiter = RateLimiter()
    /\ heap = << RateLimiter(DefaultMaxRetries, DefaultBaseDelayMs,
                             DefaultMaxDelayMs, "module") >>
    /\ default_rl = 1
    /\ thr = [t \in {1} |-> IdleThread]
    /\ calc = NoCalc
    /\ lags = 0
    /\ nops = 0
    /\ nraised = 0

\* a thread that is not inside call_with_retry is running caller code
InCallerCode(t) == thr[t].pc \in {"idle", "done"}

\* RateLimiter(max_retries, base_delay, max_delay) called by user code
Construct(max_retries, base_delay, max_delay) ==
    /\ \E t \in Threads : InCallerCode(t)
    /\ nops < MaxOps
    /\ nops' = nops + 1
    /\ heap' = Append(heap, RateLimiter(max_retries, base_delay, max_delay, "ctor"))
    /\ UNCHANGED <<now, default_rl, thr, calc, lags, nraised>>

\* a slip: the default executor reconfigured in place
SetGlobalInPlace(max_retries, base_delay, max_delay) ==
    /\ \E t \in Threads : InCallerCode(t)
    /\ nops < MaxOps
    /\ nops' = nops + 1
    /\ heap' = [heap EXCEPT ![default_rl].max_retries = max_retries,
                            ![default_rl].base_delay = base_delay,
                            ![default_rl].max_delay = max_delay]
    /\ UNCHANGED <<now, default_rl, thr, calc, lags, nraised>>

set_global_rate_limits(max_retries, base_delay, max_delay) ==
    /\ \E t \in Threads : InCallerCode(t)
    /\ nops < MaxOps
    /\ nops' = nops + 1
    /\ heap' = Append(heap, RateLimiter(max_retries, base_delay, max_delay, "set_global"))
    /\ default_rl' = Len(heap) + 1
    /\ UNCHANGED <<now, thr, calc, lags, nraised>>

\* builds a RateLimiter from the config, then returns the LLM itself: the
\* rate limiter stays a local of the factory (via = "llm_factory")
create_rate_limited_llm(config) ==
    /\ \E t \in Threads : InCallerCode(t)
    /\ nops < MaxOps
    /\ nops' = nops + 1
    /\ heap' = Append(heap,
                 RateLimiter(get(config, "max_retries", DefaultMaxRetries),
                             get(config, "retry_delay", DefaultBaseDelayMs),
                             DefaultMaxDelayMs, "llm_factory"))
    /\ UNCHANGED <<now, default_rl, thr, calc, lags, nraised>>

\* get_rate_limiter()
get_rate_limiter == default_rl

\* executors a caller can hold a reference to
Callable == {r \in 1..Len(heap) : heap[r].via # "llm_factory"}

----------------------------------------------------------------------------
(* Time *)

Sleeping(t) == thr[t].pc \in {"pace_sleep", "backoff_sleep"}

\* time passes while a thread sleeps: the clock reaches the earliest deadline
Tick ==
    LET due == {thr[t].wake : t \in {u \in Threads : Sleeping(u) /\ thr[u].wake > now}}
    IN  /\ due # {}
        /\ now' = CHOOSE w \in due : \A x \in due : w <= x
        /\ UNCHANGED <<heap, default_rl, thr, calc, lags, nops, nraised>>

\* time passes for another reason: the operation takes a while, or the caller
\* does something else between two calls
Lag ==
    /\ \E t \in Threads : InCallerCode(t) \/ thr[t].pc = "invoke"
    /\ lags < MaxLags
    /\ lags' = lags + 1
    /\ now' = now + LagTicks
    /\ UNCHANGED <<heap, default_rl, thr, calc, nops, nraised>>

----------------------------------------------------------------------------
(* RateLimiter.call_with_retry, one action per step of a thread *)

Self(t) == heap[thr[t].self]

\* line 84: range(self.max_retries + 1)
range_end(self) == self.max_retries + 1

\* a slip: the budget taken as the number of attempts
RetriesExhaustedEarly(self, attempt) == attempt = self.max_retries - 1

\* line 114
retries_exhausted(self, attempt) == attempt = self.max_retries

\* a slip: the pacing test reversed
PacingWaitReversed(time_since_last) ==
    IF time_since_last > min_interval THEN min_interval - time_since_last ELSE 0

\* lines 91-92: how long the pacing step sleeps
pacing_wait(time_since_last) ==
    IF time_since_last < min_interval THEN min_interval - time_since_last ELSE 0

\* the head of the for loop, about to bind attempt = n
LoopHead(th, n) ==
    IF n < th.limit
    THEN [th EXCEPT !.pc = "pace", !.attempt = n]
    ELSE [th EXCEPT !.pc = "after_loop"]

\* entry, lines 82-84
call_with_retry(t, r, a) ==
    /\ thr[t].pc \in {"idle", "done"}
    /\ nops < MaxOps
    /\ r \in Callable
    /\ nops' = nops + 1
    /\ thr' = [thr EXCEPT ![t] =
                 LoopHead([IdleThread EXCEPT !.self = r, !.args = a,
                                             !.limit = range_end(heap[r])], 0)]
    /\ UNCHANGED <<now, heap, default_rl, calc, lags, nraised>>

\* a slip: the pacing test reading the start time kept by the module's
\* default executor
PaceOnDefault(t) ==
    /\ thr[t].pc = "pace"
    /\ LET time_since_last == now - heap[default_rl].last_request_time
           wait == pacing_wait(time_since_last)
       IN  thr' = [thr EXCEPT ![t] =
                IF wait > 0
                THEN [@ EXCEPT !.pc = "pace_sleep", !.current_time = now,
                               !.wake = now + wait,
                               !.hist = Append(@, EvPace(thr[t].attempt, wait))]
                ELSE [@ EXCEPT !.pc = "stamp", !.current_time = now]]
    /\ UNCHANGED <<now, heap, default_rl, calc, lags, nops, nraised>>

\* lines 87-92
Pace(t) ==
    /\ thr[t].pc = "pace"
    /\ LET time_since_last == now - Self(t).last_request_time
           wait == pacing_wait(time_since_last)
       IN  thr' = [thr EXCEPT ![t] =
                IF wait > 0
                THEN [@ EXCEPT !.pc = "pace_sleep", !.current_time = now,
                               !.wake = now + wait,
                               !.hist = Append(@, EvPace(thr[t].attempt, wait))]
                ELSE [@ EXCEPT !.pc = "stamp", !.current_time = now]]
    /\ UNCHANGED <<now, heap, default_rl, calc, lags, nops, nraised>>

\* time.sleep returns once the requested time has passed
PaceWake(t) ==
    /\ thr[t].pc = "pace_sleep"
    /\ now >= thr[t].wake
    /\ thr' = [thr EXCEPT ![t].pc = "stamp"]
    /\ UNCHANGED <<now, heap, default_rl, calc, lags, nops, nraised>>

\* a slip: the start time recorded for the first attempt of a call only
StampFirstAttemptOnly(t) ==
    /\ thr[t].pc = "stamp"
    /\ heap' = [heap EXCEPT ![thr[t].self].last_request_time =
                                IF thr[t].attempt = 0 THEN now ELSE @]
    /\ thr' = [thr EXCEPT ![t].pc = "count_load"]
    /\ UNCHANGED <<now, default_rl, calc, lags, nops, nraised>>

\* line 94
Stamp(t) ==
    /\ thr[t].pc = "stamp"
    /\ heap' = [heap EXCEPT ![thr[t].self].last_request_time = now]
    /\ thr' = [thr EXCEPT ![t].pc = "count_load"]
    /\ UNCHANGED <<now, default_rl, calc, lags, nops, nraised>>

\* line 95, self.request_count += 1: the read ...
CountLoad(t) ==
    /\ thr[t].pc = "count_load"
    /\ thr' = [thr EXCEPT ![t].pc = "count_store",
                          ![t].loaded = Self(t).request_count]
    /\ UNCHANGED <<now, heap, default_rl, calc, lags, nops, nraised>>

\* a slip: the value read is written back as it is
CountStoreNoIncrement(t) ==
    /\ thr[t].pc = "count_store"
    /\ heap' = [heap EXCEPT ![thr[t].self].request_count = thr[t].loaded]
    /\ thr' = [thr EXCEPT ![t].pc = "invoke"]
    /\ UNCHANGED <<now, default_rl, calc, lags, nops, nraised>>

\* ... and the write
CountStore(t) ==
    /\ thr[t].pc = "count_store"
    /\ heap' = [heap EXCEPT ![thr[t].self].request_count = thr[t].loaded + 1]
    /\ thr' = [thr EXCEPT ![t].pc = "invoke"]
    /\ UNCHANGED <<now, default_rl, calc, lags, nops, nraised>>

\* a slip: the arguments given to the first attempt only
CallArgsFirstAttemptOnly(th) == IF th.attempt = 0 THEN th.args ELSE ""

\* line 98: the arguments func is called with
call_args(th) == th.args

\* a slip: the result kept but the loop not left
OnSuccessNoReturn(th, v) ==
    LoopHead([th EXCEPT
        !.hist = Append(@, EvInvoke(th.attempt, call_args(th), Returned(v)))],
        th.attempt + 1)

\* lines 98-104 when func returns v
on_success(th, v) ==
    [th EXCEPT
        !.pc = "done",
        !.outcome = Returned(v),
        !.hist = Append(@, EvInvoke(th.attempt, call_args(th), Returned(v))),
        !.log = IF th.attempt > 0
                THEN Append(@, LogRec("info", "succeeded", th.attempt, 0, 0))
                ELSE @]

InvokeReturns(t, v) ==
    /\ thr[t].pc = "invoke"
    /\ thr' = [thr EXCEPT ![t] = on_success(@, v)]
    /\ heap' = [heap EXCEPT ![thr[t].self].invoked = @ + 1]
    /\ UNCHANGED <<now, default_rl, calc, lags, nops, nraised>>

\* line 98 when func raises a new exception with message m
InvokeRaises(t, m) ==
    /\ thr[t].pc = "invoke"
    /\ nraised < MaxRaised
    /\ nraised' = nraised + 1
    /\ thr' = [thr EXCEPT
                 ![t].pc = "except",
                 ![t].e = Exc(nraised + 1, m),
                 ![t].hist = Append(@, EvInvoke(thr[t].attempt, call_args(thr[t]),
                                                Raised(Exc(nraised + 1, m))))]
    /\ heap' = [heap EXCEPT ![thr[t].self].invoked = @ + 1]
    /\ UNCHANGED <<now, default_rl, calc, lags, nops>>

\* lines 106-124, the except clause, with d the value of _calculate_delay
Handle(t, th, e, d, j) ==
    IF ~_is_rate_limit_error(heap[th.self], e.msg)
    THEN /\ thr' = [thr EXCEPT ![t] = [th EXCEPT
                 !.pc = "done", !.last_exception = e, !.outcome = Raised(e),
                 !.log = Append(@, LogRec("error", "non_rate_limit", 0, 0, 0))]]
         /\ calc' = calc
    ELSE IF retries_exhausted(heap[th.self], th.attempt)
    THEN /\ thr' = [thr EXCEPT ![t] = [th EXCEPT
                 !.pc = "done", !.last_exception = e, !.outcome = Raised(e),
                 !.log = Append(@, LogRec("error", "exhausted",
                                          heap[th.self].max_retries, 0, 0))]]
         /\ calc' = calc
    ELSE /\ thr' = [thr EXCEPT ![t] = [th EXCEPT
                 !.pc = "backoff_sleep", !.last_exception = e,
                 !.delay = d.delay, !.wake = now + d.delay,
                 !.hist = Append(@, EvBackoff(th.attempt, d.delay)),
                 !.log = Append(@, LogRec("warning", "rate_limit_hit",
                             th.attempt + 1, heap[th.self].max_retries + 1, d.delay))]]
         /\ calc' = [done |-> TRUE, self |-> heap[th.self], attempt |-> th.attempt,
                     error_message |-> e.msg, t |-> now, j |-> j, result |-> d]

\* a slip: the backoff kept by doubling the executor's base_delay
ExceptDoublesBaseDelay(t, j) ==
    /\ thr[t].pc = "except"
    /\ \E d \in {_calculate_delay(Self(t), thr[t].attempt, thr[t].e.msg, now, j)} :
            Handle(t, thr[t], thr[t].e, d, j)
    /\ heap' = [heap EXCEPT ![thr[t].self].base_delay = 2 * @]
    /\ UNCHANGED <<now, default_rl, lags, nops, nraised>>

\* j is the jitter draw of _calculate_delay
Except(t, j) ==
    /\ thr[t].pc = "except"
    /\ \E d \in {_calculate_delay(Self(t), thr[t].attempt, thr[t].e.msg, now, j)} :
            Handle(t, thr[t], thr[t].e, d, j)
    /\ UNCHANGED <<now, heap, default_rl, lags, nops, nraised>>

\* line 124 returns; the for loop takes its next value
BackoffWake(t) ==
    /\ thr[t].pc = "backoff_sleep"
    /\ now >= thr[t].wake
    /\ thr' = [thr EXCEPT ![t] = LoopHead(@, thr[t].attempt + 1)]
    /\ UNCHANGED <<now, heap, default_rl, calc, lags, nops, nraised>>

\* line 127: raise last_exception; raising None is a TypeError
AfterLoop(t) ==
    /\ thr[t].pc = "after_loop"
    /\ thr' = [thr EXCEPT
                 ![t].pc = "done",
                 ![t].outcome = Raised(IF thr[t].last_exception = NoException
                                       THEN TypeErrorNotException
                                       ELSE thr[t].last_exception)]
    /\ UNCHANGED <<now, heap, default_rl, calc, lags, nops, nraised>>

Next ==
    \/ \E p \in PolicyArgs : Construct(p[1], p[2], p[3])
    \/ \E p \in GlobalArgs : set_global_rate_limits(p[1], p[2], p[3])
    \/ \E config \in Configs : create_rate_limited_llm(config)
    \/ Tick
    \/ Lag
    \/ \E t \in Threads, r \in 1..Len(heap), a \in Args : call_with_retry(t, r, a)
    \/ \E t \in Threads : Pace(t)
    \/ \E t \in Threads : PaceWake(t)
    \/ \E t \in Threads : Stamp(t)
    \/ \E t \in Threads : CountLoad(t)
    \/ \E t \in Threads : CountStore(t)
    \/ \E t \in Threads, v \in Values : InvokeReturns(t, v)
    \/ \E t \in Threads, m \in Messages : InvokeRaises(t, m)
    \/ \E t \in Threads, j \in ExtremeDraws : Except(t, j)
    \/ \E t \in Threads : BackoffWake(t)
    \/ \E t \in Threads : AfterLoop(t)

Spec == Init /\ [][Next]_vars

----------------------------------------------------------------------------
(* _calculate_delay on its own: the inputs are drawn in the initial state  *)
(* and the one action evaluates the function with a jitter draw.           *)

\* largest attempt index given to _calculate_delay
DelayMaxAttempt == 3

DelayPolicies ==
    { RateLimiter(3, p[1], p[2], "ctor") :
        p \in { <<1000, 60000>>, <<100, 400>>, <<50, 60>>, <<100, 100>>,
                <<500, 200>>, <<0, 0>> } }

\* "X-RateLimit-Reset": "<T>", as JSON prints the headers
HintJson(T) ==
    Txt429 \o HeaderName \o <<"\"", ":", " ", "\"">> \o DigitsOf(T) \o <<"\"">>

HintStamps == {NearResetMs, FarResetMs, PastResetMs}

DelayMessages ==
    {MsgTooMany, HintNotInt}
        \cup {HintQuoted(T) : T \in HintStamps}
        \cup {HintJson(T) : T \in HintStamps}
        \cup {HintBare(T) : T \in HintStamps}

\* clock readings: on a millisecond, between two, and at the near reset time
DelayClocks == {StartTime, StartTime + 3, Ms(NearResetMs)}

DelayInit ==
    /\ now \in DelayClocks
    /\ heap = << RateLimiter(DefaultMaxRetries, DefaultBaseDelayMs,
                             DefaultMaxDelayMs, "module") >>
    /\ default_rl = 1
    /\ thr = [t \in {1} |-> IdleThread]
    /\ \E self \in DelayPolicies, attempt \in 0..DelayMaxAttempt,
          error_message \in DelayMessages :
            calc = [NoCalc EXCEPT !.self = self, !.attempt = attempt,
                                  !.error_message = error_message, !.t = now]
    /\ lags = 0
    /\ nops = 0
    /\ nraised = 0

CalculateDelay(j) ==
    /\ ~calc.done
    /\ calc' = [calc EXCEPT
                  !.done = TRUE, !.j = j,
                  !.result = _calculate_delay(calc.self, calc.attempt,
                                              calc.error_message, now, j)]
    /\ UNCHANGED <<now, heap, default_rl, thr, lags, nops, nraised>>

DelayNext == \E j \in JitterDraws : CalculateDelay(j)

DelaySpec == DelayInit /\ [][DelayNext]_vars

----------------------------------------------------------------------------
(* Calls whose operation raises errors carrying reset hints: one executor, *)
(* one thread.                                                             *)

\* (max_retries, base_delay ms, max_delay ms) of the executor
HintPolicies == { <<2, 100, 400>>, <<1, 50, 60>>, <<3, 1000, 60000>> }

\* a hint that is no integer, one long past and one far ahead
HintMessages == {HintNotInt, HintQuoted(PastResetMs), HintQuoted(FarResetMs)}

HintArgs == {"a1", "a2"}

HintInit ==
    /\ now = StartTime
    /\ \E p \in HintPolicies : heap = << RateLimiter(p[1], p[2], p[3], "ctor") >>
    /\ default_rl = 1
    /\ thr = [t \in {1} |-> IdleThread]
    /\ calc = NoCalc
    /\ lags = 0
    /\ nops = 0
    /\ nraised = 0

HintNext ==
    \/ Tick
    \/ \E t \in Threads, a \in HintArgs : call_with_retry(t, 1, a)
    \/ \E t \in Threads : Pace(t)
    \/ \E t \in Threads : PaceWake(t)
    \/ \E t \in Threads : Stamp(t)
    \/ \E t \in Threads : CountLoad(t)
    \/ \E t \in Threads : CountStore(t)
    \/ \E t \in Threads, v \in Values : InvokeReturns(t, v)
    \/ \E t \in Threads, m \in HintMessages : InvokeRaises(t, m)
    \/ \E t \in Threads, j \in ExtremeDraws : Except(t, j)
    \/ \E t \in Threads : BackoffWake(t)

HintSpec == HintInit /\ [][HintNext]_vars

----------------------------------------------------------------------------
(* Two threads calling call_with_retry on the module's default executor,  *)
(* get_rate_limiter(), after set_global_rate_limits(1, 0.1, 0.4).  The    *)
(* class holds no lock, so the steps of the two threads interleave freely. *)

\* the arguments given to set_global_rate_limits
SharedPolicy == <<1, 100, 400>>

SharedInit ==
    /\ now = StartTime
    /\ heap = << RateLimiter(DefaultMaxRetries, DefaultBaseDelayMs,
                             DefaultMaxDelayMs, "module"),
                 RateLimiter(SharedPolicy[1], SharedPolicy[2], SharedPolicy[3],
                             "set_global") >>
    /\ default_rl = 2
    /\ thr = [t \in {1, 2} |-> IdleThread]
    /\ calc = NoCalc
    /\ lags = 0
    /\ nops = 0
    /\ nraised = 0

SharedNext ==
    \/ Tick
    \/ \E t \in Threads, a \in Args : call_with_retry(t, get_rate_limiter, a)
    \/ \E t \in Threads : Pace(t)
    \/ \E t \in Threads : PaceWake(t)
    \/ \E t \in Threads : Stamp(t)
    \/ \E t \in Threads : CountLoad(t)
    \/ \E t \in Threads : CountStore(t)
    \/ \E t \in Threads, v \in Values : InvokeReturns(t, v)
    \/ \E t \in Threads, m \in {MsgTooMany} : InvokeRaises(t, m)
    \/ \E t \in Threads, j \in ExtremeDraws : Except(t, j)
    \/ \E t \in Threads : BackoffWake(t)

SharedSpec == SharedInit /\ [][SharedNext]_vars

----------------------------------------------------------------------------
(* create_rate_limited_llm and calls made through the object it returns.   *)
(* The function returns create_llm(), the ChatOpenAI itself (line 152), so  *)
(* a call through the returned object is one invocation of the operation;   *)
(* the RateLimiter built at lines 137-140 is referenced by nothing.  The    *)
(* returned LLM is named by the heap index r of the RateLimiter built in    *)
(* the same call of the factory.                                            *)

\* the objects create_rate_limited_llm has returned
ReturnedLlms == {r \in 1..Len(heap) : heap[r].via = "llm_factory"}

\* user code calls the returned LLM
llm_invoke(t, r, a) ==
    /\ thr[t].pc \in {"idle", "done"}
    /\ nops < MaxOps
    /\ r \in ReturnedLlms
    /\ nops' = nops + 1
    /\ thr' = [thr EXCEPT ![t] =
                 [IdleThread EXCEPT !.pc = "llm_invoke", !.self = r, !.args = a]]
    /\ UNCHANGED <<now, heap, default_rl, calc, lags, nraised>>

\* the LLM answers
LlmReturns(t, v) ==
    /\ thr[t].pc = "llm_invoke"
    /\ thr' = [thr EXCEPT
                 ![t].pc = "done",
                 ![t].outcome = Returned(v),
                 ![t].hist = Append(@, EvInvoke(0, thr[t].args, Returned(v)))]
    /\ UNCHANGED <<now, heap, default_rl, calc, lags, nops, nraised>>

\* the LLM raises an exception with message m, which reaches the caller
LlmRaises(t, m) ==
    /\ thr[t].pc = "llm_invoke"
    /\ nraised < MaxRaised
    /\ nraised' = nraised + 1
    /\ thr' = [thr EXCEPT
                 ![t].pc = "done",
                 ![t].outcome = Raised(Exc(nraised + 1, m)),
                 ![t].hist = Append(@, EvInvoke(0, thr[t].args,
                                                Raised(Exc(nraised + 1, m))))]
    /\ UNCHANGED <<now, heap, default_rl, calc, lags, nops>>

\* the program, with the calls made through returned LLMs
LlmNext ==
    \/ Next
    \/ \E t \in Threads, r \in 1..Len(heap), a \in Args : llm_invoke(t, r, a)
    \/ \E t \in Threads, v \in Values : LlmReturns(t, v)
    \/ \E t \in Threads, m \in Messages : LlmRaises(t, m)

LlmSpec == Init /\ [][LlmNext]_vars

----------------------------------------------------------------------------
(* Two threads, each calling call_with_retry on an executor of its own:    *)
(* thread 1 on the first executor, thread 2 on the second.                 *)

\* the arguments the two executors were constructed with
IsolatedPolicies == << <<1, 100, 400>>, <<2, 50, 60>> >>

IsolatedInit ==
    /\ now = StartTime
    /\ heap = [r \in {1, 2} |->
                 RateLimiter(IsolatedPolicies[r][1], IsolatedPolicies[r][2],
                             IsolatedPolicies[r][3], "ctor")]
    /\ default_rl = 1
    /\ thr = [t \in {1, 2} |-> IdleThread]
    /\ calc = NoCalc
    /\ lags = 0
    /\ nops = 0
    /\ nraised = 0

IsolatedNext ==
    \/ Tick
    \/ \E t \in Threads, a \in Args : call_with_retry(t, t, a)
    \/ \E t \in Threads : Pace(t)
    \/ \E t \in Threads : PaceWake(t)
    \/ \E t \in Threads : Stamp(t)
    \/ \E t \in Threads : CountLoad(t)
    \/ \E t \in Threads : CountStore(t)
    \/ \E t \in Threads, v \in Values : InvokeReturns(t, v)
    \/ \E t \in Threads, m \in {MsgTooMany} : InvokeRaises(t, m)
    \/ \E t \in Threads, j \in ExtremeDraws : Except(t, j)
    \/ \E t \in Threads : BackoffWake(t)

IsolatedSpec == IsolatedInit /\ [][IsolatedNext]_vars

----------------------------------------------------------------------------
(* _is_rate_limit_error on its own: the initial state draws an error text  *)
(* and two executors, and the one action classifies the text on both.      *)

\* str(error) of errors given to _is_rate_limit_error
ClassifyMessages ==
    { <<"R","a","t","e"," ","L","i","m","i","t"," ","e","x","c","e","e","d","e","d">>,
      <<"R","A","T","E"," ","L","I","M","I","T">>,
      <<"e","r","r","o","r"," ","4","2","9">>,
      <<"H","T","T","P"," ","4","2","9","0">>,
      <<"T","o","o"," ","M","a","n","y"," ","R","e","q","u","e","s","t","s">>,
      <<"Q","U","O","T","A"," ","E","X","C","E","E","D","E","D"," ","f","o","r"," ","p","r","o","j","e","c","t"," ","x">>,
      <<"Q","u","o","t","a"," ","e","x","c","e","e","d","e","d">>,
      <<"I","n","v","a","l","i","d"," ","A","P","I"," ","k","e","y">>,
      <<"r","a","t","e","l","i","m","i","t">>,
      <<"r","a","t","e","-","l","i","m","i","t"," ","r","e","a","c","h","e","d">>,
      <<"q","u","o","t","a"," "," ","e","x","c","e","e","d","e","d">>,
      <<"t","o","o"," ","m","a","n","y"," ","r","e","q","u","e","s","t">>,
      <<"4","2"," ","9">>,
      <<"t","i","m","e","o","u","t">>,
      <<>> }

\* executors at different points of their lives
ClassifyContexts ==
    { RateLimiter(DefaultMaxRetries, DefaultBaseDelayMs, DefaultMaxDelayMs, "module"),
      [RateLimiter(1, 100, 400, "ctor") EXCEPT
          !.request_count = 5, !.invoked = 5, !.last_request_time = StartTime],
      [RateLimiter(0, 500, 200, "set_global") EXCEPT
          !.request_count = 1, !.invoked = 1, !.last_request_time = StartTime - 1] }

ClassifyInit ==
    /\ now = StartTime
    /\ \E a \in ClassifyContexts, b \in ClassifyContexts : heap = <<a, b>>
    /\ default_rl = 1
    /\ thr = [t \in {1} |-> IdleThread]
    /\ \E error_str \in ClassifyMessages :
          calc = [done |-> FALSE, error_message |-> error_str, verdict |-> <<>>]
    /\ lags = 0
    /\ nops = 0
    /\ nraised = 0

\* heap[1]._is_rate_limit_error(error) and heap[2]._is_rate_limit_error(error)
\* for two errors with the same text; the method assigns to nothing
Classify ==
    /\ ~calc.done
    /\ calc' = [calc EXCEPT
                  !.done = TRUE,
                  !.verdict = << _is_rate_limit_error(heap[1], calc.error_message),
                                 _is_rate_limit_error(heap[2], calc.error_message) >>]
    /\ UNCHANGED <<now, heap, default_rl, thr, lags, nops, nraised>>

ClassifyNext == Classify

ClassifySpec == ClassifyInit /\ [][ClassifyNext]_vars

----------------------------------------------------------------------------
(* utils/helpers.py, truncate_text: the initial state draws the arguments *)
(* and the one action evaluates the function.                             *)

\* longest text and largest max_length drawn
MaxTextLen == 4
MaxTruncLength == 5

\* text[:k] as Python slices: a negative k counts from the end
SliceTo(text, k) ==
    IF k >= 0
    THEN SubSeq(text, 1, Min(k, Len(text)))
    ELSE SubSeq(text, 1, Max(Len(text) + k, 0))

\* truncate_text(text, max_length, suffix)
truncate_text(text, max_length, suffix) ==
    IF Len(text) <= max_length
    THEN text
    ELSE SliceTo(text, max_length - Len(suffix)) \o suffix

TruncChars == {"a", "b"}
TruncTexts == UNION { [1..n -> TruncChars] : n \in 0..MaxTextLen }
TruncSuffixes == { <<>>, <<".">>, <<".", ".", ".">> }

TruncInit ==
    /\ now = StartTime
    /\ heap = << RateLimiter(DefaultMaxRetries, DefaultBaseDelayMs,
                             DefaultMaxDelayMs, "module") >>
    /\ default_rl = 1
    /\ thr = [t \in {1} |-> IdleThread]
    /\ \E text \in TruncTexts, max_length \in 0..MaxTruncLength,
          suffix \in TruncSuffixes :
            calc = [done |-> FALSE, text |-> text, max_length |-> max_length,
                    suffix |-> suffix, result |-> <<>>]
    /\ lags = 0
    /\ nops = 0
    /\ nraised = 0

Truncate ==
    /\ ~calc.done
    /\ calc' = [calc EXCEPT
                  !.done = TRUE,
                  !.result = truncate_text(calc.text, calc.max_length, calc.suffix)]
    /\ UNCHANGED <<now, heap, default_rl, thr, lags, nops, nraised>>

TruncNext == Truncate

TruncSpec == TruncInit /\ [][TruncNext]_vars

----------------------------------------------------------------------------
(* session3/stateful_workflow.py (and its LangChain twin): the three-step  *)
(* workflow run by run_simple_workflow.  calc holds the run: where the     *)
(* graph is, the graph's state, the dict handed to the running node, and   *)
(* what has happened so far.                                               *)

\* langgraph.graph.END
END == "__end__"

\* Optional[str]
NoneStr == [is_none |-> TRUE, value |-> ""]
Str(x) == [is_none |-> FALSE, value |-> x]

\* questions asked, and texts the agents produce (str(...) of a result is a
\* string, possibly the empty one)
Questions == {"q1", "q2"}
LlmOutputs == {"", "o1", "o2"}

\* what a node function leaves behind: its argument as it is after the call
\* and the dict it returns
StepResult(arg, ret) == [arg |-> arg, ret |-> ret]

\* a slip: the notes written into the state the step was given
ResearchStepInPlace(state, research_result) ==
    StepResult([state EXCEPT !["research_notes"] = Str(research_result),
                             !["current_step"] = "researched"],
               [state EXCEPT !["research_notes"] = Str(research_result),
                             !["current_step"] = "researched"])

\* research_step: new_state = state.copy() and two assignments
research_step(state, research_result) ==
    StepResult(state,
               [state EXCEPT !["research_notes"] = Str(research_result),
                             !["current_step"] = "researched"])

draft_answer_step(state, draft_result) ==
    StepResult(state,
               [state EXCEPT !["answer_draft"] = Str(draft_result),
                             !["current_step"] = "drafted"])

final_answer_step(state, final_result) ==
    StepResult(state,
               [state EXCEPT !["final_answer"] = Str(final_result),
                             !["current_step"] = "complete"])

\* a slip: the router sending a researched state back to research
DecideNextStepRepeats(state) ==
    IF get(state, "current_step", "start") = "start" THEN "research"
    ELSE IF get(state, "current_step", "start") = "researched" THEN "research"
    ELSE IF get(state, "current_step", "start") = "drafted" THEN "final"
    ELSE END

decide_next_step(state) ==
    IF get(state, "current_step", "start") = "start" THEN "research"
    ELSE IF get(state, "current_step", "start") = "researched" THEN "draft"
    ELSE IF get(state, "current_step", "start") = "drafted" THEN "final"
    ELSE END

\* create_simple_workflow: the nodes, the conditional-edge mapping of each
\* node, and the entry point
Nodes == {"research", "draft", "final"}
Edges ==
    [n \in Nodes |->
        IF n = "research" THEN [k \in {"draft", END} |-> k]
        ELSE IF n = "draft" THEN [k \in {"final", END} |-> k]
        ELSE [k \in {END} |-> k]]
EntryPoint == "research"

\* the function add_node registered under the name n, applied
NodeFunction(n, state, result) ==
    IF n = "research" THEN research_step(state, result)
    ELSE IF n = "draft" THEN draft_answer_step(state, result)
    ELSE final_answer_step(state, result)

\* run_simple_workflow: the starting state
starting_state(question) ==
    [user_question |-> question, research_notes |-> NoneStr,
     answer_draft |-> NoneStr, final_answer |-> NoneStr, current_step |-> "start"]

WorkflowInit ==
    /\ now = StartTime
    /\ heap = << RateLimiter(DefaultMaxRetries, DefaultBaseDelayMs,
                             DefaultMaxDelayMs, "module") >>
    /\ default_rl = 1
    /\ thr = [t \in {1} |-> IdleThread]
    /\ \E question \in Questions :
          calc = [pc |-> "invoke", node |-> "", key |-> "",
                  state |-> starting_state(question),
                  given |-> starting_state(question),
                  passed |-> starting_state(question),
                  ran |-> <<>>, steps |-> <<"start">>]
    /\ lags = 0
    /\ nops = 0
    /\ nraised = 0

\* the graph calls node n with its state
EnterNode(run, n) ==
    [run EXCEPT !.pc = "node", !.node = n, !.given = run.state,
                !.passed = run.state, !.ran = Append(@, n)]

\* app.invoke(starting_state): the graph starts at its entry point
AppInvoke ==
    /\ calc.pc = "invoke"
    /\ calc' = EnterNode(calc, EntryPoint)
    /\ UNCHANGED <<now, heap, default_rl, thr, lags, nops, nraised>>

\* the agent of the running node produces result, the node returns and the
\* graph takes the returned dict as its state
NodeReturns(result) ==
    /\ calc.pc = "node"
    /\ \E r \in {NodeFunction(calc.node, calc.given, result)} :
          calc' = [calc EXCEPT !.pc = "route", !.given = r.arg, !.state = r.ret,
                               !.steps = Append(@, r.ret["current_step"])]
    /\ UNCHANGED <<now, heap, default_rl, thr, lags, nops, nraised>>

\* the agent's call raises; the exception leaves app.invoke
NodeRaises ==
    /\ calc.pc = "node"
    /\ calc' = [calc EXCEPT !.pc = "failed"]
    /\ UNCHANGED <<now, heap, default_rl, thr, lags, nops, nraised>>

\* the conditional edge of the node that just ran: the router's key is
\* looked up in the node's mapping
Route ==
    /\ calc.pc = "route"
    /\ \E key \in {decide_next_step(calc.state)} :
          calc' = IF key \notin DOMAIN Edges[calc.node]
                  THEN [calc EXCEPT !.pc = "failed", !.key = key]
                  ELSE IF Edges[calc.node][key] = END
                  THEN [calc EXCEPT !.pc = "END", !.key = key]
                  ELSE EnterNode([calc EXCEPT !.key = key], Edges[calc.node][key])
    /\ UNCHANGED <<now, heap, default_rl, thr, lags, nops, nraised>>

WorkflowNext ==
    \/ AppInvoke
    \/ \E result \in LlmOutputs : NodeReturns(result)
    \/ NodeRaises
    \/ Route

\* the run is one sequential program: it goes on until it ends
WorkflowSpec == WorkflowInit /\ [][WorkflowNext]_vars /\ WF_vars(WorkflowNext)

----------------------------------------------------------------------------
(* What a call did, read off its history *)

IsInvoke(ev) == ev.ev = "invoke"
IsBackoff(ev) == ev.ev = "backoff"
InvokesOf(h) == SelectSeq(h, IsInvoke)
BackoffsOf(h) == SelectSeq(h, IsBackoff)
Finished(t) == thr[t].pc = "done"
InCall(t) == thr[t].pc # "idle"

\* the verdict the specification gives each message the operation raises in
\* Spec: "429 Too Many Requests" and the 429 with a reset hint are rate-limit
\* conditions, "Invalid API key" is not
RateLimitMessages == {MsgTooMany, HintQuoted(NearResetMs)}
FatalMessages == {MsgInvalidKey}

RaisedRateLimit(ev) ==
    IsInvoke(ev) /\ ev.out.kind = "raise" /\ ev.out.exc.msg \in RateLimitMessages
RaisedFatal(ev) ==
    IsInvoke(ev) /\ ev.out.kind = "raise" /\ ev.out.exc.msg \in FatalMessages
ReturnedValue(ev) == IsInvoke(ev) /\ ev.out.kind = "return"

AllRateLimited(h) == \A i \in 1..Len(h) : IsInvoke(h[i]) => RaisedRateLimit(h[i])

----------------------------------------------------------------------------
(* Claims *)

\* C1: with max_retries = k >= 0 and an operation whose every invocation
\* raises a rate-limit error, the call never makes more than k + 1
\* invocations, and when it ends it has made exactly k + 1 and raises the
\* error of the last one.
C1_AttemptBound ==
    \A t \in Threads :
        (InCall(t) /\ Self(t).max_retries >= 0 /\ AllRateLimited(thr[t].hist)) =>
            LET inv == InvokesOf(thr[t].hist)
                k   == Self(t).max_retries
            IN  /\ Len(inv) <= k + 1
                /\ Finished(t) =>
                     /\ Len(inv) = k + 1
                     /\ thr[t].outcome = inv[k + 1].out
                     /\ thr[t].outcome.kind = "raise"

\* the default policy (k = 3) exhausted: four invocations, then the error
C1_Witness ==
    \E t \in Threads :
        /\ Finished(t) /\ Self(t).max_retries = 3
        /\ AllRateLimited(thr[t].hist)
        /\ Len(InvokesOf(thr[t].hist)) = 4
        /\ thr[t].outcome.kind = "raise"

\* C2: an invocation at attempt n that raises an error that is no rate-limit
\* condition is the last thing the call does: it was invocation n + 1, no
\* backoff wait and no further invocation follow it, and the call ends
\* raising that very error.
C2_FastFail ==
    \A t \in Threads : \A i \in 1..Len(thr[t].hist) :
        RaisedFatal(thr[t].hist[i]) =>
            /\ i = Len(thr[t].hist)
            /\ Len(InvokesOf(thr[t].hist)) = thr[t].hist[i].attempt + 1
            /\ thr[t].hist[i].attempt <= Self(t).max_retries
            /\ thr[t].pc \in {"except", "done"}
            /\ Finished(t) => thr[t].outcome = thr[t].hist[i].out

\* a fatal error on the second attempt, after one rate-limit failure
C2_Witness ==
    \E t \in Threads :
        /\ Finished(t)
        /\ Len(InvokesOf(thr[t].hist)) = 2
        /\ RaisedRateLimit(InvokesOf(thr[t].hist)[1])
        /\ RaisedFatal(InvokesOf(thr[t].hist)[2])
        /\ thr[t].outcome = InvokesOf(thr[t].hist)[2].out

\* C3: an invocation at attempt i that returns ends the call at once: it was
\* invocation i + 1, every earlier one raised a rate-limit error, nothing
\* follows it, and the call returns exactly its value.
C3_SuccessShortCircuit ==
    \A t \in Threads : \A i \in 1..Len(thr[t].hist) :
        ReturnedValue(thr[t].hist[i]) =>
            /\ i = Len(thr[t].hist)
            /\ Finished(t)
            /\ thr[t].outcome = Returned(thr[t].hist[i].out.value)
            /\ Len(InvokesOf(thr[t].hist)) = thr[t].hist[i].attempt + 1
            /\ thr[t].hist[i].attempt <= Self(t).max_retries
            /\ \A m \in 1..(i - 1) :
                   IsInvoke(thr[t].hist[m]) => RaisedRateLimit(thr[t].hist[m])

\* Scenario A: three rate-limit failures, then success on the fourth attempt
C3_Witness ==
    \E t \in Threads :
        /\ Finished(t) /\ Self(t).max_retries = 3
        /\ Len(InvokesOf(thr[t].hist)) = 4
        /\ \A m \in 1..3 : RaisedRateLimit(InvokesOf(thr[t].hist)[m])
        /\ thr[t].outcome = Returned("r2")

\* C4: every error that leaves call_with_retry is the exception object the
\* operation raised in its most recent invocation.
C4_OriginalErrorOnly ==
    \A t \in Threads :
        (Finished(t) /\ thr[t].outcome.kind = "raise") =>
            LET inv == InvokesOf(thr[t].hist)
            IN  /\ Len(inv) >= 1
                /\ inv[Len(inv)].out = thr[t].outcome

\* C5: on an executor used by one thread, a new attempt start time is at
\* least min_interval after the previous one; an attempt that would start
\* sooner sleeps until exactly min_interval after the previous start, and an
\* attempt goes ahead without sleeping only when min_interval has passed.
C5_PacingFloor ==
    [][ /\ \A r \in 1..Len(heap) :
             (heap[r].request_count >= 1
                /\ heap'[r].last_request_time # heap[r].last_request_time) =>
                 heap'[r].last_request_time >= heap[r].last_request_time + min_interval
        /\ \A t \in Threads :
             (thr[t].pc = "pace" /\ Self(t).request_count >= 1) =>
                /\ thr'[t].pc = "pace_sleep" =>
                     /\ now - Self(t).last_request_time < min_interval
                     /\ thr'[t].wake = Self(t).last_request_time + min_interval
                /\ thr'[t].pc = "stamp" =>
                     now - Self(t).last_request_time >= min_interval
      ]_vars

\* an attempt that slept in the pacing step and then recorded its start
C5_Witness ==
    \E t \in Threads :
        /\ thr[t].pc = "count_load"
        /\ Self(t).request_count >= 1
        /\ thr[t].hist # <<>>
        /\ thr[t].hist[Len(thr[t].hist)].ev = "pace"
        /\ Self(t).last_request_time = thr[t].wake

ValidPolicy(self) ==
    0 < self.base_delay /\ self.base_delay <= self.max_delay /\ self.max_retries >= 0

NowMs(t) == t \div TicksPerMs

\* C6, as claimed: under 0 < base_delay <= max_delay the delay computed
\* without a server hint satisfies 0.1 s <= delay <= max_delay.
C6_AsClaimed ==
    (calc.done /\ ValidPolicy(calc.self) /\ calc.result.retry_after.is_none) =>
        /\ Ms(MinDelayMs) <= calc.result.delay
        /\ calc.result.delay <= Ms(calc.self.max_delay)

\* C6, amended: under 0 < base_delay <= max_delay the delay computed without
\* a server hint satisfies 0.1 s <= delay <= max(max_delay, 0.1 s); the floor
\* is applied last, so with max_delay < 0.1 s the delay is 0.1 s.
C6_DelayBounds ==
    (calc.done /\ ValidPolicy(calc.self) /\ calc.result.retry_after.is_none) =>
        /\ Ms(MinDelayMs) <= calc.result.delay
        /\ calc.result.delay <= Max(Ms(calc.self.max_delay), Ms(MinDelayMs))
        /\ calc.self.max_delay >= MinDelayMs =>
               calc.result.delay <= Ms(calc.self.max_delay)

\* base_delay 0.1 s, attempt 3: 0.8 s before clamping, cut to max_delay 0.4 s
C6_Witness ==
    /\ calc.done /\ ValidPolicy(calc.self)
    /\ calc.result.retry_after.is_none
    /\ calc.self.max_delay = 400 /\ calc.attempt = 3
    /\ calc.result.jittered > Ms(400)
    /\ calc.result.delay = Ms(400)

\* C7, as claimed: a message holding X-RateLimit-Reset: "<T>" with T later
\* than the clock gives the delay (T - now_ms) / 1000 before jitter.
C7_AsClaimed ==
    \A T \in HintStamps :
        (calc.done /\ calc.error_message = HintBare(T) /\ T > NowMs(calc.t)) =>
            calc.result.base = Ms(T - NowMs(calc.t))

\* C7, amended: a message holding the header name followed at once by a
\* quote, a colon, optional blanks and the quoted timestamp, as in
\* 'X-RateLimit-Reset': '<T>' or "X-RateLimit-Reset": "<T>", with T later
\* than the clock, gives the delay (T - now_ms) / 1000 before jitter, at
\* every attempt index.
C7_HintPrecedence ==
    \A T \in HintStamps :
        (calc.done /\ calc.error_message \in {HintQuoted(T), HintJson(T)}
                   /\ T > NowMs(calc.t)) =>
            /\ calc.result.base = Ms(T - NowMs(calc.t))
            /\ calc.result.retry_after = Some(Ms(T - NowMs(calc.t)))

\* a reset 300 ms ahead of a clock that stands between two milliseconds, at
\* attempt 2 of a policy whose exponential delay would be 4 s
C7_Witness ==
    /\ calc.done
    /\ calc.error_message = HintQuoted(NearResetMs)
    /\ calc.t = StartTime + 3
    /\ calc.attempt = 2 /\ calc.self.base_delay = 1000
    /\ calc.result.base = Ms(300)

\* C8: every call ends, returning a result or raising the operation's error,
\* after at most max_retries + 1 attempts and at most max_retries backoff
\* waits.
C8_EndsWithinBudget ==
    \A t \in Threads :
        /\ InCall(t) => Len(InvokesOf(thr[t].hist)) <= Self(t).max_retries + 1
        /\ Finished(t) =>
             /\ Len(BackoffsOf(thr[t].hist)) <= Self(t).max_retries
             /\ \/ thr[t].outcome.kind = "return"
                \/ thr[t].outcome.kind = "raise" /\ thr[t].outcome.exc.type = "Exception"

\* C9: a backoff wait comes only right after an invocation that raised a
\* rate-limit error at an attempt n < max_retries, and attempt n + 1 is what
\* follows it; so a finished call made one invocation more than it made
\* backoff waits.
C9_BackoffBetweenAttempts ==
    \A t \in Threads :
        LET h == thr[t].hist
        IN  /\ \A i \in 1..Len(h) :
                 IsBackoff(h[i]) =>
                    /\ i > 1
                    /\ RaisedRateLimit(h[i - 1])
                    /\ h[i - 1].attempt = h[i].attempt
                    /\ h[i].attempt < Self(t).max_retries
                    /\ \A m \in (i + 1)..Len(h) :
                          IsInvoke(h[m]) => h[m].attempt > h[i].attempt
                    /\ Finished(t) => i < Len(h)
            /\ Finished(t) =>
                 Len(BackoffsOf(h)) = Len(InvokesOf(h)) - 1

\* C10: every executor satisfies 0 < base_delay <= max_delay and
\* max_retries >= 0.
C10_PolicyInvariant ==
    \A r \in 1..Len(heap) : ValidPolicy(heap[r])

\* C11: on an executor shared by two threads, every attempt start recorded
\* after the first is at least min_interval = 0.2 s after the start recorded
\* before it, in every interleaving.
C11_SharedPacing ==
    [][ \A t \in Threads :
          (/\ thr[t].pc = "stamp"
           /\ thr'[t].pc = "count_load"
           /\ Self(t).last_request_time > 0)
            => heap'[thr[t].self].last_request_time
                   >= Self(t).last_request_time + min_interval
      ]_vars

\* the four substrings, and containment in any letter case, each position
\* compared letter by letter
RateLimitSubstrings ==
    { <<"r","a","t","e"," ","l","i","m","i","t">>,
      <<"4","2","9">>,
      <<"t","o","o"," ","m","a","n","y"," ","r","e","q","u","e","s","t","s">>,
      <<"q","u","o","t","a"," ","e","x","c","e","e","d","e","d">> }
SameLetter(a, b) ==
    \/ a = b
    \/ \E k \in 1..26 : {a, b} = {UpperChars[k], LowerChars[k]}
ContainsAnyCase(text, sub) ==
    \E i \in 0..(Len(text) - Len(sub)) :
        \A k \in 1..Len(sub) : SameLetter(text[i + k], sub[k])

\* C12: _is_rate_limit_error is true exactly for the texts that contain
\* "rate limit", "429", "too many requests" or "quota exceeded" somewhere,
\* in any letter case.
C12_Classification ==
    calc.done =>
        (calc.verdict[1] <=>
            \E sub \in RateLimitSubstrings :
                ContainsAnyCase(calc.error_message, sub))

\* an upper-case text with more text after the substring is classified as a
\* rate-limit condition
C12_Witness ==
    /\ calc.done
    /\ calc.error_message = <<"Q","U","O","T","A"," ","E","X","C","E","E","D","E","D"," ","f","o","r"," ","p","r","o","j","e","c","t"," ","x">>
    /\ calc.verdict[1]

\* C13: the verdict depends on the text only: two executors that differ in
\* policy, request_count and last_request_time give the same verdict for the
\* same text, and classifying changes no executor.
C13_ClassificationPure ==
    [][ calc'.done => (calc'.verdict[1] = calc'.verdict[2] /\ heap' = heap) ]_vars

\* a rate-limit text classified on a new executor and on one that has made
\* five attempts
C13_Witness ==
    /\ calc.done
    /\ calc.error_message = <<"T","o","o"," ","M","a","n","y"," ","R","e","q","u","e","s","t","s">>
    /\ calc.verdict = <<TRUE, TRUE>>
    /\ heap[1].request_count = 0
    /\ heap[2].request_count = 5
    /\ heap[1].max_retries # heap[2].max_retries

\* the latest invocation of a call
LastInvoke(h) == InvokesOf(h)[Len(InvokesOf(h))]

\* C14: when the message holds a reset hint whose value is no integer, or
\* whose timestamp is not later than the clock, _extract_retry_after gives no
\* hint, the delay before jitter is base_delay * 2^attempt, and the call
\* goes on: it sleeps and retries, and an error it ends with is the error
\* object the operation raised last.
C14_HintFailsClosed ==
    /\ (calc.done /\ \/ calc.error_message = HintNotInt
                     \/ \E T \in HintStamps :
                           /\ calc.error_message = HintQuoted(T)
                           /\ Ms(T) <= calc.t)
          => /\ calc.result.retry_after = None
             /\ calc.result.base = Ms(calc.self.base_delay) * Pow2(calc.attempt)
    /\ \A t \in Threads :
          /\ (Finished(t) /\ thr[t].outcome.kind = "raise")
                => /\ InvokesOf(thr[t].hist) # <<>>
                   /\ LastInvoke(thr[t].hist).out = thr[t].outcome
                   /\ thr[t].outcome.exc.type = "Exception"
          /\ \A i \in 1..Len(thr[t].hist) :
                (/\ IsInvoke(thr[t].hist[i])
                 /\ thr[t].hist[i].out.kind = "raise"
                 /\ thr[t].hist[i].attempt < Self(t).max_retries
                 /\ i < Len(thr[t].hist))
                  => /\ IsBackoff(thr[t].hist[i + 1])
                     /\ thr[t].hist[i + 1].dur >= Ms(MinDelayMs)

\* after a first failure with a hint that is no integer and a second with a
\* hint long past, the second backoff starts from 2 * base_delay
C14_Witness ==
    \E t \in Threads :
        /\ thr[t].pc = "backoff_sleep"
        /\ Len(InvokesOf(thr[t].hist)) = 2
        /\ thr[t].hist[1].out.exc.msg = HintNotInt
        /\ calc.error_message = HintQuoted(PastResetMs)
        /\ calc.attempt = 1
        /\ calc.result.base = Ms(2 * Self(t).base_delay)

\* the message of the failure a thread is backing off from holds a reset
\* timestamp later than the clock
BackingOffOnFutureHint(t) ==
    /\ thr[t].pc = "backoff_sleep"
    /\ calc.done
    /\ \E T \in HintStamps :
          calc.error_message = HintQuoted(T) /\ Ms(T) > calc.t

\* C17, as claimed: a backoff wait after a future reset hint is at least
\* 0.1 s and at most max_delay.
C17_AsClaimed ==
    \A t \in Threads :
        BackingOffOnFutureHint(t) =>
            /\ thr[t].wake - calc.t >= Ms(MinDelayMs)
            /\ thr[t].wake - calc.t <= Ms(Self(t).max_delay)

\* C17: a backoff wait after a future reset hint is at least 0.1 s and at
\* most the larger of max_delay and 0.1 s.
C17_HintedWaitBounds ==
    \A t \in Threads :
        BackingOffOnFutureHint(t) =>
            /\ thr[t].wake - calc.t >= Ms(MinDelayMs)
            /\ thr[t].wake - calc.t <= Max(Ms(Self(t).max_delay), Ms(MinDelayMs))
            /\ thr[t].wake - calc.t = thr[t].delay

\* a hint 89 s ahead on an executor with max_delay = 0.4 s: the wait is 0.4 s
C17_Witness ==
    \E t \in Threads :
        /\ BackingOffOnFutureHint(t)
        /\ calc.error_message = HintQuoted(FarResetMs)
        /\ Self(t).max_delay = 400
        /\ calc.result.jittered > Ms(60000)
        /\ thr[t].wake - calc.t = Ms(400)

\* C20: every invocation of a call was given the arguments the caller
\* passed to call_with_retry.
C20_SameArguments ==
    \A t \in Threads :
        \A i \in 1..Len(thr[t].hist) :
            IsInvoke(thr[t].hist[i]) =>
                /\ thr[t].hist[i].args = thr[t].args
                /\ thr[t].hist[i].args \in HintArgs

\* a third attempt made with the caller's arguments
C20_Witness ==
    \E t \in Threads :
        /\ thr[t].args = "a2"
        /\ Len(InvokesOf(thr[t].hist)) = 3
        /\ \A k \in 1..3 : InvokesOf(thr[t].hist)[k].args = "a2"
        /\ InvokesOf(thr[t].hist)[3].attempt = 2

\* C15: when all the calls made by several threads on one executor have
\* finished, request_count is the number of invocations made through it.
C15_NoLostCount ==
    (\A t \in Threads : thr[t].pc \in {"idle", "done"}) =>
        \A r \in 1..Len(heap) : heap[r].request_count = heap[r].invoked

\* the attempts counted on executor r (line 95) whose invocation (line 98)
\* has not been made yet
Pending(r) == Cardinality({t \in Threads : thr[t].self = r /\ thr[t].pc = "invoke"})

\* C16: on an executor used by one thread request_count is the number of
\* invocations made through it since construction (plus the attempt already
\* counted whose invocation is about to be made): it is 0 on a new executor,
\* a step changes it by nothing or by exactly one, upwards, and every
\* invocation has been counted exactly once.
C16_CountsInvocations ==
    [][ /\ \A r \in 1..Len(heap) :
              /\ heap[r].request_count = heap[r].invoked + Pending(r)
              /\ heap'[r].request_count \in
                     {heap[r].request_count, heap[r].request_count + 1}
        /\ \A r \in 1..Len(heap') :
              /\ heap'[r].request_count =
                     heap'[r].invoked
                       + Cardinality({t \in Threads :
                            thr'[t].self = r /\ thr'[t].pc = "invoke"})
              /\ r > Len(heap) => heap'[r].request_count = 0
        /\ \A t \in Threads :
              thr'[t].pc = "done" =>
                  heap'[thr'[t].self].request_count = heap'[thr'[t].self].invoked
      ]_vars

\* a second call on the same executor has finished, after successes and
\* failures
C16_Witness ==
    \E t \in Threads :
        /\ Finished(t)
        /\ thr[t].outcome.kind = "return"
        /\ Len(InvokesOf(thr[t].hist)) = 2
        /\ Self(t).request_count = 4
        /\ Self(t).invoked = 4

\* C18: the delay before clamping is within 25% of the delay before jitter,
\* base (exponential or server-hinted), on either side:
\* 0.75 * base <= jittered <= 1.25 * base, and the lowest draw gives
\* 0.75 * base.
C18_JitterRange ==
    calc.done =>
        /\ 3 * calc.result.base <= 4 * calc.result.jittered
        /\ 4 * calc.result.jittered <= 5 * calc.result.base
        /\ (calc.result.base - calc.result.jittered) * 4 <= calc.result.base
        /\ (calc.result.jittered - calc.result.base) * 4 <= calc.result.base
        /\ calc.j = 0 - JitterDen => 4 * calc.result.jittered = 3 * calc.result.base

\* a server-hinted delay of 89 s, jittered down to three quarters of it
C18_Witness ==
    /\ calc.done
    /\ calc.error_message = HintQuoted(FarResetMs)
    /\ calc.t = StartTime
    /\ calc.j = 0 - JitterDen
    /\ calc.result.base = Ms(89000)
    /\ calc.result.jittered = Ms(66750)

\* C19: with no server hint in the message, the delay before jitter computed
\* after failed attempt n of a call (the call's (n + 1)-th invocation) is
\* base_delay * 2^n, whatever the executor did in earlier calls.
C19_BackoffSchedule ==
    \A t \in Threads :
        (thr[t].pc = "backoff_sleep" /\ calc.error_message = MsgTooMany) =>
            /\ calc.attempt = Len(InvokesOf(thr[t].hist)) - 1
            /\ calc.result.retry_after = None
            /\ calc.result.base =
                  Ms(Self(t).base_delay) * Pow2(Len(InvokesOf(thr[t].hist)) - 1)

\* the first backoff of a call on an executor whose earlier call failed
\* twice: the delay before jitter is base_delay again
C19_Witness ==
    \E t \in Threads :
        /\ thr[t].pc = "backoff_sleep"
        /\ calc.error_message = MsgTooMany
        /\ Len(InvokesOf(thr[t].hist)) = 1
        /\ Self(t).invoked = 3
        /\ nraised = 3
        /\ calc.result.base = Ms(Self(t).base_delay)

\* thread t executes line 94 in this step
StampStep(t) == thr[t].pc = "stamp" /\ thr'[t].pc = "count_load"

C23_PolicyUnchanged ==
    [][ \A r \in 1..Len(heap) :
           /\ heap'[r].max_retries = heap[r].max_retries
           /\ heap'[r].base_delay = heap[r].base_delay
           /\ heap'[r].max_delay = heap[r].max_delay
           /\ heap'[r].via = heap[r].via
      ]_vars

\* a call that backed off once and then ran out of attempts: its executor
\* still has the policy it was constructed with
C23_Witness ==
    \E t \in Threads :
        /\ Finished(t)
        /\ thr[t].outcome.kind = "raise"
        /\ Len(BackoffsOf(thr[t].hist)) = 1
        /\ Self(t).via = "ctor"
        /\ <<Self(t).max_retries, Self(t).base_delay, Self(t).max_delay>>
              = <<1, 100, 400>>
        /\ Self(t).request_count = 2

\* C24: get_rate_limiter() changes only in a step that appends a new
\* executor as set_global_rate_limits(m, b, d) makes it: policy (m, b, d),
\* request_count 0, last_request_time 0; that step leaves every executor
\* that existed as it was.
C24_ProcessWideDefault ==
    [][ /\ get_rate_limiter' # get_rate_limiter =>
              /\ Len(heap') = Len(heap) + 1
              /\ get_rate_limiter' = Len(heap')
              /\ \E p \in GlobalArgs :
                    heap'[get_rate_limiter'] =
                        [max_retries |-> p[1], base_delay |-> p[2],
                         max_delay |-> p[3], last_request_time |-> 0,
                         request_count |-> 0, via |-> "set_global",
                         invoked |-> 0]
              /\ \A r \in 1..Len(heap) : heap'[r] = heap[r]
        /\ (Len(heap') > Len(heap) /\ heap'[Len(heap')].via = "set_global") =>
              get_rate_limiter' = Len(heap')
        /\ (Len(heap') = Len(heap)) =>
              /\ get_rate_limiter' = get_rate_limiter
              /\ \A r \in 1..Len(heap) :
                    <<heap'[r].max_retries, heap'[r].base_delay, heap'[r].max_delay>>
                      = <<heap[r].max_retries, heap[r].base_delay, heap[r].max_delay>>
      ]_vars

\* the default executor was used, then replaced: the new default is fresh
\* and the one obtained earlier keeps its policy and its count
C24_Witness ==
    /\ get_rate_limiter = 2
    /\ heap[2].via = "set_global"
    /\ heap[2].request_count = 0
    /\ heap[2].max_retries = 0
    /\ heap[1].request_count >= 1
    /\ heap[1].last_request_time >= StartTime
    /\ heap[1].max_retries = DefaultMaxRetries
    /\ \E t \in Threads : Finished(t) /\ thr[t].self = 1

\* s is text[:n] for some n
IsPrefixOf(s, text) == Len(s) <= Len(text) /\ s = SubSeq(text, 1, Len(s))

\* C29: the result of truncate_text is no longer than max_length; a text no
\* longer than max_length comes back unchanged, and a longer one comes back
\* as a prefix of the text followed by the suffix.
C29_TruncatesToMaxLength ==
    calc.done =>
        /\ Len(calc.result) <= calc.max_length
        /\ Len(calc.text) <= calc.max_length => calc.result = calc.text
        /\ Len(calc.text) > calc.max_length =>
              \E n \in 0..Len(calc.text) :
                  calc.result = SubSeq(calc.text, 1, n) \o calc.suffix

\* when max_length leaves room for the suffix the statement of C29 holds
TruncatesIfRoomForSuffix ==
    (calc.done /\ calc.max_length >= Len(calc.suffix)) =>
        /\ Len(calc.result) <= calc.max_length
        /\ Len(calc.text) <= calc.max_length => calc.result = calc.text
        /\ Len(calc.text) > calc.max_length =>
              /\ Len(calc.result) = calc.max_length
              /\ IsPrefixOf(SubSeq(calc.result, 1,
                                   calc.max_length - Len(calc.suffix)), calc.text)

\* C30: no call reaches the statement after the attempt loop, and no call
\* ends by raising last_exception while it is still None.
C30_FallThroughUnreachable ==
    \A t \in Threads :
        /\ thr[t].pc # "after_loop"
        /\ Finished(t) => thr[t].outcome # Raised(TypeErrorNotException)

\* the statement after the loop is reached only on an executor whose
\* max_retries is negative
FallThroughOnlyIfNegative ==
    \A t \in Threads :
        thr[t].pc = "after_loop" => heap[thr[t].self].max_retries < 0

IsWarning(rec) == rec.level = "warning"
WarningsOf(log) == SelectSeq(log, IsWarning)
NumAt(log, level) == Cardinality({i \in DOMAIN log : log[i].level = level})

\* the log of the call of thread t against its history and outcome
LogTraceMatches(t) ==
    /\ Len(WarningsOf(thr[t].log)) = Len(BackoffsOf(thr[t].hist))
    /\ \A i \in 1..Len(WarningsOf(thr[t].log)) :
          /\ WarningsOf(thr[t].log)[i].n = BackoffsOf(thr[t].hist)[i].attempt + 1
          /\ WarningsOf(thr[t].log)[i].of = heap[thr[t].self].max_retries + 1
          /\ WarningsOf(thr[t].log)[i].delay = BackoffsOf(thr[t].hist)[i].dur
    /\ NumAt(thr[t].log, "error") =
          IF thr[t].outcome.kind = "raise" THEN 1 ELSE 0
    /\ NumAt(thr[t].log, "info") =
          IF thr[t].outcome.kind = "return" /\ thr[t].attempt > 0 THEN 1 ELSE 0
    /\ \A i \in DOMAIN thr[t].log :
          thr[t].log[i].level = "info" => thr[t].log[i].n = thr[t].attempt
    /\ (thr[t].outcome.kind = "return" /\ thr[t].attempt = 0) => thr[t].log = <<>>

\* C25: the log of every finished call matches its outcome: one warning per
\* backoff wait naming attempt n + 1 of max_retries + 1, exactly one error
\* record when the call ended in an error and none when it returned, one
\* info record naming the retries exactly when it returned at an attempt
\* > 0, and no record for a first-attempt success.
C25_LogTrace ==
    \A t \in Threads : Finished(t) => LogTraceMatches(t)

\* the log matches the outcome of every call on an executor whose
\* max_retries is not negative
LogTraceIfNonNegative ==
    \A t \in Threads :
        (Finished(t) /\ heap[thr[t].self].max_retries >= 0) => LogTraceMatches(t)

\* the pacing step of thread t decides on the start time of its own executor
PacesOnOwn(t) ==
    (thr[t].pc = "pace" /\ thr'[t].pc # "pace") =>
        LET own == heap[thr[t].self].last_request_time
        IN  IF now - own < min_interval
            THEN thr'[t].pc = "pace_sleep" /\ thr'[t].wake = own + min_interval
            ELSE thr'[t].pc = "stamp"

\* C22: with two executors in use by two threads at once, a step of a call
\* changes last_request_time, request_count and the policy of no executor
\* but its own (and never the policy); each pacing step sleeps or not by the
\* start time of its own executor, and each call makes at most its own
\* executor's max_retries + 1 attempts.
C22_ExecutorIsolation ==
    [][ /\ \A t \in Threads :
              thr'[t] # thr[t] =>
                  /\ \A r \in 1..Len(heap) : r # thr'[t].self => heap'[r] = heap[r]
                  /\ PacesOnOwn(t)
                  /\ thr'[t].attempt <= heap[thr'[t].self].max_retries
        /\ \A r \in 1..Len(heap) :
              /\ heap'[r].max_retries = heap[r].max_retries
              /\ heap'[r].base_delay = heap[r].base_delay
              /\ heap'[r].max_delay = heap[r].max_delay ]_vars

\* both calls are in flight on their own executors: the first executor is
\* in its second attempt, started less than min_interval ago, and thread 2,
\* whose own executor was due, has started its first attempt after that
\* without sleeping
C22_Witness ==
    /\ thr[1].self = 1 /\ thr[1].pc = "invoke" /\ thr[1].attempt = 1
    /\ now - heap[1].last_request_time < min_interval
    /\ thr[2].self = 2 /\ thr[2].pc = "invoke" /\ thr[2].attempt = 0
    /\ thr[2].hist = <<>>
    /\ heap[2].last_request_time >= heap[1].last_request_time
    /\ heap[1].request_count = 2 /\ heap[2].request_count = 1

\* C26: a call made through the object create_rate_limited_llm returned
\* that fails with a rate-limit error is retried by the RateLimiter built
\* from the config: it ends in that error only after max_retries + 1
\* invocations, each counted by that RateLimiter.
C26_ReturnedLlmIsRateLimited ==
    \A t \in Threads :
        ( /\ Finished(t)
          /\ thr[t].self \in ReturnedLlms
          /\ heap[thr[t].self].max_retries >= 0
          /\ thr[t].outcome.kind = "raise"
          /\ thr[t].outcome.exc.msg \in RateLimitMessages ) =>
            /\ Len(InvokesOf(thr[t].hist)) = heap[thr[t].self].max_retries + 1
            /\ heap[thr[t].self].request_count = Len(InvokesOf(thr[t].hist))

\* the RateLimiter built by create_rate_limited_llm is never used
FactoryLimiterUnused ==
    \A r \in ReturnedLlms :
        heap[r].request_count = 0 /\ heap[r].last_request_time = 0

IsPrefix(s, full) == Len(s) <= Len(full) /\ s = SubSeq(full, 1, Len(s))
NodeOrder == <<"research", "draft", "final">>
StepOrder == <<"start", "researched", "drafted", "complete">>

OutputField(n) ==
    IF n = "research" THEN "research_notes"
    ELSE IF n = "draft" THEN "answer_draft"
    ELSE "final_answer"

\* the outputs of the nodes in ns are present in state
HasOutputs(state, ns) == \A n \in ns : ~state[OutputField(n)].is_none

\* C28: a node that returns has changed, in the state it returns, only its
\* own output field and current_step, and has left the state it was given
\* as it was; when a node runs the outputs of the nodes before it are not
\* None, and at END research_notes, answer_draft and final_answer are not
\* None and user_question is the question asked.
C28_StateRemembered ==
    /\ [][(calc.pc = "node" /\ calc'.pc = "route") =>
            /\ DOMAIN calc'.state = DOMAIN calc.passed
            /\ \A k \in DOMAIN calc.passed \ {OutputField(calc.node), "current_step"} :
                  calc'.state[k] = calc.passed[k]
            /\ ~calc'.state[OutputField(calc.node)].is_none
            /\ calc'.given = calc.passed]_vars
    /\ [](/\ calc.pc = "node" =>
                HasOutputs(calc.given,
                           {NodeOrder[i] : i \in 1..(Len(calc.ran) - 1)})
          /\ calc.pc = "END" =>
                /\ HasOutputs(calc.state, Nodes)
                /\ calc.state["user_question"] \in Questions
                /\ calc.state["user_question"] = calc.passed["user_question"])

\* the run has ended with the three outputs kept, the last one the empty
\* string
C28_Witness ==
    /\ calc.pc = "END"
    /\ calc.state["user_question"] = "q2"
    /\ calc.state["research_notes"] = Str("o1")
    /\ calc.state["answer_draft"] = Str("o2")
    /\ calc.state["final_answer"] = Str("")
    /\ calc.given = calc.passed

----------------------------------------------------------------------------
(* The budget of a call on an executor with max_retries >= 0.             *)

\* in the calls on an executor with max_retries >= 0 the statements of C8 and
\* C9 do hold
WithinBudgetIfNonNegative ==
    \A t \in Threads :
        (Finished(t) /\ Self(t).max_retries >= 0) =>
            /\ Len(InvokesOf(thr[t].hist)) <= Self(t).max_retries + 1
            /\ Len(BackoffsOf(thr[t].hist)) <= Self(t).max_retries
            /\ Len(BackoffsOf(thr[t].hist)) = Len(InvokesOf(thr[t].hist)) - 1
            /\ \/ thr[t].outcome.kind = "return"
               \/ thr[t].outcome.kind = "raise" /\ thr[t].outcome.exc.type = "Exception"

====
